---- MODULE Spec2Model ----
\* Model of src/main.go: one run of the ERC20 transfer metric.
\* main: load .env, dial the node, currentBlock (head lookup, one log query,
\* ABI parse, decode-and-count loop, SortAddressesByCount), print the top 5.
EXTENDS Integers, Sequences, FiniteSets, TLC

VARIABLES pc, calls, latestBlockNumber, query, logs, idx, metric,
          metrics, err, stdout, i, exit

vars == <<pc, calls, latestBlockNumber, query, logs, idx, metric,
          metrics, err, stdout, i, exit>>

-----------------------------------------------------------------------------
\* Bounds of the model and constants of the program.

\* Longest reply of the node to the log query.
MaxLogs == 3
\* Number of distinct 20-byte address values (stands for 2^160).
AddressSpace == 16

\* big.NewInt(int64(99)), main.go:65.
WindowBack == 99
\* len(vLog.Topics) != 3, main.go:92.
TopicCount == 3
\* for i := 0; i < 5; i++, main.go:52.
TopN == 5
\* Size in bytes of the one non-indexed uint256 field of the event, main.go:67.
WordSize == 32

\* The error values of the run (nil, or the message fmt.Errorf builds).
ErrNil == "nil"
ErrHeader == "failed to retrieve the latest block header"
ErrFilter == "failed to filter logs"
ErrAbi == "failed in marshall abi contract"
ErrEmpty == "no logs in map to sort"

\* common.Address{}: the all-zero address.
ZeroAddress == 0

\* crypto.Keccak256Hash("Transfer(address,address,uint256)"), the topic the
\* query filters on in the first position.
transferEventHash == "Transfer(address,address,uint256)"

\* A nil []Metric and a non-nil one holding elems.
NilSlice == [isNil |-> TRUE, elems |-> <<>>]
Slice(s) == [isNil |-> FALSE, elems |-> s]

\* The value of a local not yet assigned.
NoQuery == [FromBlock |-> 0, ToBlock |-> 0, Topics |-> <<>>]
EmptyMap == <<>>

-----------------------------------------------------------------------------
\* What the node may answer.

\* Chain heads the node may report, below and above the width of the window.
Heads == {WindowBack - 1, WindowBack + 1}

\* A raw log of the Transfer event: the signature topic, two indexed 32-byte
\* topics, and a data payload of the given length in bytes.
TransferLog(f, t) == [Topics |-> <<transferEventHash, f, t>>, Data |-> WordSize]

\* Logs between the zero address and two accounts (a mint, a self-transfer of
\* each kind, transfers both ways), a burn whose topics carry non-zero bytes
\* above the low 20 bytes, and logs the loop does not count.
NarrowLogs ==
    {TransferLog(0, 0), TransferLog(0, 1), TransferLog(1, 1),
     TransferLog(1, 2), TransferLog(2, 1)}
    \cup {TransferLog(AddressSpace + 1, AddressSpace)}
    \cup {[Topics |-> <<transferEventHash, 1>>, Data |-> WordSize],
          [Topics |-> <<transferEventHash, 1, 2, 1>>, Data |-> WordSize],
          [Topics |-> <<transferEventHash, 1, 2>>, Data |-> 0],
          [Topics |-> <<transferEventHash, 1, 2>>, Data |-> WordSize - 1]}

\* Logs between six further accounts, so that a reply names more than TopN.
WideLogs == {TransferLog(3, 4), TransferLog(5, 6), TransferLog(7, 8)}

SeqsUpTo(S, n) == UNION {[1..k -> S] : k \in 0..n}

LogReplies == SeqsUpTo(NarrowLogs, MaxLogs) \cup SeqsUpTo(WideLogs, MaxLogs)

-----------------------------------------------------------------------------
\* Pure steps of currentBlock.

\* common.HexToAddress(topic.Hex()): BytesToAddress keeps the low 20 bytes of
\* the 32-byte topic.
HexToAddress(topic) == topic % AddressSpace

\* The FilterQuery built from the head.
BuildQuery(head) ==
    [FromBlock |-> head - WindowBack,
     ToBlock   |-> head,
     Topics    |-> <<<<transferEventHash>>>>]

Skipped_lt(vLog) == Len(vLog.Topics) < TopicCount \/ vLog.Data = 0
\* The guard of the loop's first continue.
Skipped(vLog) == Len(vLog.Topics) # TopicCount \/ vLog.Data = 0

\* contractAbi.UnpackIntoInterface(&transferEvent, "Transfer", vLog.Data):
\* the one uint256 needs a full word of data; nil error iff it is there.
UnpackOk(vLog) == vLog.Data >= WordSize

\* m[k]++ on a Go map: a missing key counts from 0.
Incr(m, k) ==
    IF k \in DOMAIN m THEN [m EXCEPT ![k] = @ + 1] ELSE m @@ (k :> 1)

CountTransfer_once(m, from, to) ==
    IF from = to THEN Incr(m, from) ELSE Incr(Incr(m, from), to)
\* metric[From]++ ; metric[To]++
CountTransfer(m, from, to) == Incr(Incr(m, from), to)

-----------------------------------------------------------------------------
\* SortAddressesByCount.

Less_asc(counters, a, b) == counters[a].Count < counters[b].Count
\* The less function handed to sort.Slice.
Less(counters, a, b) == counters[a].Count > counters[b].Count

Swap(s, a, b) == [s EXCEPT ![a] = s[b], ![b] = s[a]]

\* sort.Slice on a slice of at most 12 elements is an insertion sort.
RECURSIVE InsertLeft(_, _)
InsertLeft(s, j) ==
    IF j > 1 /\ Less(s, j, j - 1)
    THEN InsertLeft(Swap(s, j, j - 1), j - 1)
    ELSE s

RECURSIVE InsertionSort(_, _)
InsertionSort(s, k) ==
    IF k > Len(s) THEN s ELSE InsertionSort(InsertLeft(s, k), k + 1)

SortSlice(s) == InsertionSort(s, 2)

\* The orders in which range may visit the keys of a map.
Orders(m) ==
    {o \in [1..Cardinality(DOMAIN m) -> DOMAIN m] :
        \A a, b \in 1..Cardinality(DOMAIN m) : a # b => o[a] # o[b]}

RECURSIVE Collect_nofilter(_, _, _, _)
Collect_nofilter(logsMap, order, k, counters) ==
    IF k > Len(order) THEN counters
    ELSE Collect_nofilter(logsMap, order, k + 1,
                          Append(counters, [Address |-> order[k],
                                            Count |-> logsMap[order[k]]]))

RECURSIVE Collect_break(_, _, _, _)
Collect_break(logsMap, order, k, counters) ==
    IF k > Len(order) THEN counters
    ELSE IF order[k] # ZeroAddress
         THEN Collect_break(logsMap, order, k + 1,
                            Append(counters, [Address |-> order[k],
                                              Count |-> logsMap[order[k]]]))
         ELSE counters

\* The range loop over logsMap, visiting the keys in the given order.
RECURSIVE Collect(_, _, _, _)
Collect(logsMap, order, k, counters) ==
    IF k > Len(order) THEN counters
    ELSE IF order[k] # ZeroAddress
         THEN Collect(logsMap, order, k + 1,
                      Append(counters, [Address |-> order[k],
                                        Count |-> logsMap[order[k]]]))
         ELSE Collect(logsMap, order, k + 1, counters)

SortAddressesByCount_nocheck(logsMap, order) ==
    [metrics |-> Slice(SortSlice(Collect(logsMap, order, 1, <<>>))),
     err |-> ErrNil]

\* The pair SortAddressesByCount returns when range visits the keys in order.
SortAddressesByCount(logsMap, order) ==
    IF Cardinality(DOMAIN logsMap) = 0
    THEN [metrics |-> NilSlice, err |-> ErrEmpty]
    ELSE [metrics |-> Slice(SortSlice(Collect(logsMap, order, 1, <<>>))),
          err |-> ErrNil]

-----------------------------------------------------------------------------
\* The condition of main's print loop.
PrintCond_min(k, m) == k < TopN /\ k < Len(m.elems)
PrintCond(k, m) == k < TopN

\* "address %v used ERC20 %v times\n"
AddressLine(m) ==
    [line |-> "address used ERC20 times", Address |-> m.Address,
     Count |-> m.Count]

-----------------------------------------------------------------------------
Init ==
    /\ pc = "loadenv"
    /\ calls = <<>>
    /\ latestBlockNumber = 0
    /\ query = NoQuery
    /\ logs = <<>>
    /\ idx = 1
    /\ metric = EmptyMap
    /\ metrics = NilSlice
    /\ err = ErrNil
    /\ stdout = <<>>
    /\ i = 0
    /\ exit = "running"

\* godotenv.Load(): log.Fatal when the .env file cannot be loaded.
LoadEnv ==
    /\ pc = "loadenv"
    /\ \E ok \in BOOLEAN :
          IF ok THEN pc' = "dial" /\ exit' = exit
                ELSE pc' = "exit" /\ exit' = "fatal"
    /\ UNCHANGED <<calls, latestBlockNumber, query, logs, idx, metric,
                   metrics, err, stdout, i>>

\* ethclient.DialContext: log.Fatal when the dial fails.
Dial ==
    /\ pc = "dial"
    /\ \E ok \in BOOLEAN :
          IF ok THEN pc' = "header" /\ exit' = exit
                ELSE pc' = "exit" /\ exit' = "fatal"
    /\ UNCHANGED <<calls, latestBlockNumber, query, logs, idx, metric,
                   metrics, err, stdout, i>>

HeaderByNumber_retry ==
    /\ pc = "header"
    /\ calls' = Append(calls, "HeaderByNumber")
    /\ \/ /\ Len(calls) < 2
          /\ UNCHANGED <<metrics, err, pc, latestBlockNumber, query>>
       \/ /\ metrics' = NilSlice
          /\ err' = ErrHeader
          /\ pc' = "returned"
          /\ UNCHANGED <<latestBlockNumber, query>>
       \/ \E head \in Heads :
             /\ latestBlockNumber' = head
             /\ query' = BuildQuery(head)
             /\ pc' = "filter"
             /\ UNCHANGED <<metrics, err>>
    /\ UNCHANGED <<logs, idx, metric, stdout, i, exit>>

\* currentBlock, up to the log query: the head lookup, then the query is built.
HeaderByNumber ==
    /\ pc = "header"
    /\ calls' = Append(calls, "HeaderByNumber")
    /\ \/ /\ metrics' = NilSlice
          /\ err' = ErrHeader
          /\ pc' = "returned"
          /\ UNCHANGED <<latestBlockNumber, query>>
       \/ \E head \in Heads :
             /\ latestBlockNumber' = head
             /\ query' = BuildQuery(head)
             /\ pc' = "filter"
             /\ UNCHANGED <<metrics, err>>
    /\ UNCHANGED <<logs, idx, metric, stdout, i, exit>>

\* client.FilterLogs(ctx, query)
FilterLogs ==
    /\ pc = "filter"
    /\ calls' = Append(calls, "FilterLogs")
    /\ \/ /\ metrics' = NilSlice
          /\ err' = ErrFilter
          /\ pc' = "returned"
          /\ UNCHANGED logs
       \/ \E reply \in LogReplies :
             /\ logs' = reply
             /\ pc' = "abi"
             /\ UNCHANGED <<metrics, err>>
    /\ UNCHANGED <<latestBlockNumber, query, idx, metric, stdout, i, exit>>

\* abi.JSON(...), then metric := make(map[common.Address]int)
AbiJSON ==
    /\ pc = "abi"
    /\ \/ /\ metrics' = NilSlice
          /\ err' = ErrAbi
          /\ pc' = "returned"
          /\ UNCHANGED <<metric, idx>>
       \/ /\ metric' = EmptyMap
          /\ idx' = 1
          /\ pc' = "loop"
          /\ UNCHANGED <<metrics, err>>
    /\ UNCHANGED <<calls, latestBlockNumber, query, logs, stdout, i, exit>>

\* One iteration of for _, vLog := range logs.
LoopStep ==
    /\ pc = "loop"
    /\ idx <= Len(logs)
    /\ LET vLog == logs[idx] IN
         IF Skipped(vLog)
         THEN UNCHANGED <<metric, stdout>>
         ELSE IF ~UnpackOk(vLog)
              THEN /\ stdout' = Append(stdout, [line |-> "Error unpacking from ABI"])
                   /\ UNCHANGED metric
              ELSE /\ metric' = CountTransfer(metric,
                                              HexToAddress(vLog.Topics[2]),
                                              HexToAddress(vLog.Topics[3]))
                   /\ UNCHANGED stdout
    /\ idx' = idx + 1
    /\ UNCHANGED <<pc, calls, latestBlockNumber, query, logs, metrics, err,
                   i, exit>>

\* return SortAddressesByCount(metric), once the range over logs is done.
Rank ==
    /\ pc = "loop"
    /\ idx > Len(logs)
    /\ \E order \in Orders(metric) :
          LET r == SortAddressesByCount(metric, order) IN
            /\ metrics' = r.metrics
            /\ err' = r.err
    /\ pc' = "returned"
    /\ UNCHANGED <<calls, latestBlockNumber, query, logs, idx, metric,
                   stdout, i, exit>>

\* main, after currentBlock returned: the error is printed, the run goes on.
CheckErr ==
    /\ pc = "returned"
    /\ stdout' = IF err # ErrNil
                 THEN Append(stdout, [line |-> "error in currenBlock"])
                 ELSE stdout
    /\ i' = 0
    /\ pc' = "print"
    /\ UNCHANGED <<calls, latestBlockNumber, query, logs, idx, metric,
                   metrics, err, exit>>

\* One iteration of main's print loop, or its end; metrics[i] panics when i
\* is not below len(metrics).
PrintTop ==
    /\ pc = "print"
    /\ IF PrintCond(i, metrics)
       THEN IF i < Len(metrics.elems)
            THEN /\ stdout' = Append(stdout, AddressLine(metrics.elems[i + 1]))
                 /\ i' = i + 1
                 /\ UNCHANGED <<pc, exit>>
            ELSE /\ pc' = "exit"
                 /\ exit' = "panic"
                 /\ UNCHANGED <<stdout, i>>
       ELSE /\ pc' = "exit"
            /\ exit' = "ok"
            /\ UNCHANGED <<stdout, i>>
    /\ UNCHANGED <<calls, latestBlockNumber, query, logs, idx, metric,
                   metrics, err>>

Next ==
    \/ LoadEnv
    \/ Dial
    \/ HeaderByNumber
    \/ FilterLogs
    \/ AbiJSON
    \/ LoopStep
    \/ Rank
    \/ CheckErr
    \/ PrintTop

Spec == Init /\ [][Next]_vars

-----------------------------------------------------------------------------
\* Vocabulary of the properties.

\* currentBlock has returned to main.
Returned == pc \in {"returned", "print", "exit"} /\ calls # <<>>

\* currentBlock got as far as calling SortAddressesByCount, which returned.
Ranked == Returned /\ err \in {ErrNil, ErrEmpty}

\* A log the specification counts: exactly three topics, a non-empty payload
\* that decodes.
WellFormed(l) == Len(l.Topics) = 3 /\ l.Data > 0 /\ l.Data >= WordSize

Sender(l) == l.Topics[2] % AddressSpace
Receiver(l) == l.Topics[3] % AddressSpace

\* How often the counted logs of s name a as sender, plus as receiver.
MentionsIn(s, a) ==
    Cardinality({k \in 1..Len(s) : WellFormed(s[k]) /\ Sender(s[k]) = a})
    + Cardinality({k \in 1..Len(s) : WellFormed(s[k]) /\ Receiver(s[k]) = a})

MentionedIn(s) ==
    {Sender(s[k]) : k \in {j \in 1..Len(s) : WellFormed(s[j])}}
    \cup {Receiver(s[k]) : k \in {j \in 1..Len(s) : WellFormed(s[j])}}

Entries == metrics.elems

\* The metric lines main printed, in order.
IsAddressLine(l) == l.line = "address used ERC20 times"
PrintedLines == SelectSeq(stdout, IsAddressLine)

ScenarioLogs == <<TransferLog(1, 2), TransferLog(2, 1), TransferLog(1, 1)>>

-----------------------------------------------------------------------------
\* C1: the ranked sequence never holds an entry for the all-zero address,
\* however often counted logs name it as sender or receiver.
C1_ZeroAddressAbsent ==
    \A k \in 1..Len(Entries) : Entries[k].Address # ZeroAddress

\* The zero address was counted twice or more and a ranked list came back.
C1_Witness ==
    /\ Ranked
    /\ ZeroAddress \in DOMAIN metric
    /\ metric[ZeroAddress] >= 2
    /\ Len(Entries) >= 1

\* C2: the ranked output holds exactly one entry per distinct non-zero address
\* the counted logs mention, with count (#logs with from = a) + (#logs with
\* to = a); a self-transfer adds 2; A->B, B->A, A->A ranks as [A(4), B(2)].
C2_ExactCounts ==
    (Returned /\ err = ErrNil) =>
        /\ Len(Entries) = Cardinality(MentionedIn(logs) \ {ZeroAddress})
        /\ \A a \in MentionedIn(logs) \ {ZeroAddress} :
              \E k \in 1..Len(Entries) :
                 Entries[k] = [Address |-> a, Count |-> MentionsIn(logs, a)]
        /\ logs = ScenarioLogs =>
              Entries = <<[Address |-> 1, Count |-> 4],
                          [Address |-> 2, Count |-> 2]>>

\* The scenario of the specification has been ranked.
C2_Witness ==
    /\ Returned
    /\ err = ErrNil
    /\ logs = ScenarioLogs
    /\ Len(Entries) = 2

\* C3: a log is counted iff it has exactly 3 topics and a non-empty payload
\* that decodes; any other log changes no count, raises no error and does not
\* end the loop, so the counts are those of the well-formed logs alone.
C3_MalformedIgnored ==
    /\ pc = "loop" =>
          /\ err = ErrNil
          /\ idx <= Len(logs) + 1
          /\ DOMAIN metric = MentionedIn(SubSeq(logs, 1, idx - 1))
          /\ \A a \in DOMAIN metric :
                metric[a] = MentionsIn(SubSeq(logs, 1, idx - 1), a)
    /\ Ranked =>
          /\ idx = Len(logs) + 1
          /\ DOMAIN metric = MentionedIn(logs)
          /\ \A a \in DOMAIN metric : metric[a] = MentionsIn(logs, a)

\* The loop went past a log that is not well-formed and counted a later one.
C3_Witness ==
    /\ Ranked
    /\ \E j, k \in 1..Len(logs) :
          j < k /\ ~WellFormed(logs[j]) /\ WellFormed(logs[k])
    /\ DOMAIN metric # {}

\* C4: a sequence SortAddressesByCount returns without error is ordered by
\* non-increasing count.
C4_SortedDescending ==
    (Returned /\ err = ErrNil) =>
        \A k \in 1..(Len(Entries) - 1) :
           Entries[k].Count >= Entries[k + 1].Count

\* A ranked list with two different counts.
C4_Witness ==
    /\ Returned
    /\ err = ErrNil
    /\ Len(Entries) >= 2
    /\ Entries[1].Count > Entries[Len(Entries)].Count

\* C5: whenever the aggregation map holds no non-zero address, the ranking
\* step reports an error.
C5_NoNonZeroIsError ==
    (Ranked /\ \A a \in DOMAIN metric : a = ZeroAddress) => err # ErrNil

\* C6: on an empty aggregation map SortAddressesByCount returns an error and
\* a nil list, never an empty list with a nil error.
C6_EmptyMapIsError ==
    (Ranked /\ DOMAIN metric = {}) => (err = ErrEmpty /\ metrics = NilSlice)

\* The node returned logs, every one was skipped, and the ranking returned.
C6_Witness ==
    /\ pc = "returned"
    /\ err = ErrEmpty
    /\ Len(logs) >= 2
    /\ DOMAIN metric = {}

\* C7: once currentBlock was called, error or not, the run ends in the print
\* loop: with at least 5 ranked entries it prints exactly the first 5 in
\* ranked order and ends normally, with fewer (the nil result of an error
\* included) it ends in an out-of-bounds panic.
C7_PrintTopFive ==
    (pc = "exit" /\ calls # <<>>) =>
          IF Len(Entries) >= 5
          THEN /\ exit = "ok"
               /\ PrintedLines = [k \in 1..5 |-> AddressLine(Entries[k])]
          ELSE /\ exit = "panic"
               /\ PrintedLines =
                     [k \in 1..Len(Entries) |-> AddressLine(Entries[k])]

\* A run that printed five of six ranked entries and ended normally.
C7_Witness ==
    /\ pc = "exit"
    /\ exit = "ok"
    /\ Len(Entries) = 6
    /\ Len(PrintedLines) = 5

\* C8: a failed head lookup, log query or schema parse makes currentBlock
\* return the error with a nil list and do none of the later steps; the head
\* lookup and the log query are each called at most once, in that order.
C8_FailFastNoRetry ==
    /\ calls \in {<<>>, <<"HeaderByNumber">>, <<"HeaderByNumber", "FilterLogs">>}
    /\ err \in {ErrHeader, ErrFilter, ErrAbi} =>
          /\ Returned
          /\ metrics = NilSlice
          /\ metric = EmptyMap
          /\ idx = 1
    /\ err = ErrHeader => (calls = <<"HeaderByNumber">> /\ query = NoQuery)
    /\ err \in {ErrHeader, ErrFilter} => logs = <<>>

\* The head lookup failed and the run went on to its end.
C8_Witness ==
    /\ pc = "exit"
    /\ err = ErrHeader

\* C9: the log query is issued with lower bound head - 99 and upper bound
\* head, and the lower bound is a valid block height (not negative) for every
\* head.
C9_WindowValid ==
    pc = "filter" =>
        /\ query.ToBlock = latestBlockNumber
        /\ query.FromBlock = latestBlockNumber - 99
        /\ query.FromBlock >= 0

\* C10: whatever order the map is ranged over, ranking the same counts gives
\* the same set of (address, count) pairs, the same error outcome and the
\* same sequence of counts; only entries of equal count may change places.
C10_OrderIndependent ==
    (pc = "loop" /\ idx > Len(logs)) =>
        LET first == SortAddressesByCount(metric,
                                          CHOOSE o \in Orders(metric) : TRUE)
            elems(r) == r.metrics.elems
        IN \A o \in Orders(metric) :
              LET other == SortAddressesByCount(metric, o) IN
                /\ other.err = first.err
                /\ other.metrics.isNil = first.metrics.isNil
                /\ {elems(other)[k] : k \in 1..Len(elems(other))}
                     = {elems(first)[k] : k \in 1..Len(elems(first))}
                /\ Len(elems(other)) = Len(elems(first))
                /\ \A k \in 1..Len(elems(first)) :
                      elems(other)[k].Count = elems(first)[k].Count

\* The map is about to be ranked and two orders of ranging over it give
\* different sequences.
C10_Witness ==
    /\ pc = "loop"
    /\ idx > Len(logs)
    /\ ZeroAddress \in DOMAIN metric
    /\ \E o1, o2 \in Orders(metric) :
          SortAddressesByCount(metric, o1).metrics
            # SortAddressesByCount(metric, o2).metrics

====
